---- MODULE Spec2Model ----
(***************************************************************************)
(* Model of caas/storage/store.py: the in-memory DocumentStore and the     *)
(* ContextExtractor that ranks a document's sections and packs them into a *)
(* character budget.                                                       *)
(*                                                                         *)
(* Python str values that the code measures, slices, lower-cases or        *)
(* searches are sequences of one-character strings; ids and enum values    *)
(* are atomic strings.  A float weight w is the integer w * WeightUnit;    *)
(* WeightUnit is chosen so that every product by 1.5 the model can reach   *)
(* is exact.  The dict self.documents is a sequence of Document records in *)
(* key insertion order.                                                    *)
(***************************************************************************)
EXTENDS Integers, Sequences, FiniteSets, TLC

VARIABLES documents, storage_path, disk, ret, sorted_sections, calls,
          pc, frame

vars == <<documents, storage_path, disk, ret, sorted_sections, calls,
          pc, frame>>

(***************************************************************************)
(* Bounds                                                                  *)
(***************************************************************************)
\* number of extract_context calls in one behaviour
MaxCalls == 2
\* number of documents held by the store at once
MaxDocs == 2

(***************************************************************************)
(* Values                                                                  *)
(***************************************************************************)
\* Optional[Document] without a document
None == [id |-> "None"]
\* the storage file before the first save
NoFile == [exists |-> FALSE, data |-> <<>>]
\* no extract_context call is under way
NoFrame == [i |-> 0]

RECURSIVE Pow2(_)
Pow2(n) == IF n = 0 THEN 1 ELSE 2 * Pow2(n - 1)

\* the integer that stands for the float 1.0 (Section.weight default)
WeightUnit == 10 * Pow2(MaxCalls)

\* w tenths, as a weight
Tenths(t) == t * (WeightUnit \div 10)

(***************************************************************************)
(* str operations                                                          *)
(***************************************************************************)
\* the characters str.lower() changes
ToLower ==
    ("A" :> "a") @@ ("B" :> "b") @@ ("C" :> "c") @@ ("D" :> "d") @@
    ("E" :> "e") @@ ("F" :> "f") @@ ("G" :> "g") @@ ("H" :> "h") @@
    ("I" :> "i") @@ ("J" :> "j") @@ ("K" :> "k") @@ ("L" :> "l") @@
    ("M" :> "m") @@ ("N" :> "n") @@ ("O" :> "o") @@ ("P" :> "p") @@
    ("Q" :> "q") @@ ("R" :> "r") @@ ("S" :> "s") @@ ("T" :> "t") @@
    ("U" :> "u") @@ ("V" :> "v") @@ ("W" :> "w") @@ ("X" :> "x") @@
    ("Y" :> "y") @@ ("Z" :> "z")

\* str.lower(); the result is a new str (<<>> \o f is f as a sequence value)
Lower(s) ==
    <<>> \o [i \in 1..Len(s) |->
                IF s[i] \in DOMAIN ToLower THEN ToLower[s[i]] ELSE s[i]]

\* q in s
Contains(s, q) ==
    \E i \in 0..(Len(s) - Len(q)) : SubSeq(s, i + 1, i + Len(q)) = q

\* s[:n] for n >= 0
Prefix(s, n) == SubSeq(s, 1, IF n < Len(s) THEN n ELSE Len(s))

RECURSIVE Rep(_, _)
\* c * n: n copies of the character c
Rep(c, n) == IF n = 0 THEN <<>> ELSE Append(Rep(c, n - 1), c)

(***************************************************************************)
(* Documents handed to the store                                           *)
(***************************************************************************)
Section(title, content, weight) ==
    [title |-> title, content |-> content, weight |-> weight]

Document(id, title, content, detected_type, sections, ingestion_timestamp) ==
    [id |-> id, title |-> title, content |-> content,
     detected_type |-> detected_type, sections |-> sections,
     ingestion_timestamp |-> ingestion_timestamp]

\* ingestion_timestamp is a day number and the behaviour runs on day 400.
\* Blocks of 10, 114 and 8 characters; "KEY" matches section A only, which
\* the boost lifts from 1.0 to the 1.5 of section B; ingested 400 days ago
Doc1 ==
    Document("d1", <<"N","e","w","s">>, <<"k","e","y">>, "article",
        << Section(<<"A">>, <<"K","e","y">>, Tenths(10)),
           Section(<<"B">>, Rep("b", 107), Tenths(15)),
           Section(<<"C">>, <<"c">>, Tenths(30)) >>,
        0)

\* the title, content and section titles of Doc1, ingested 1 day ago;
\* "KEY" matches section A only, and 1.4 < 1.5 * 1.0 < 1.6
Doc2 ==
    Document("d2", <<"N","e","w","s">>, <<"k","e","y">>, "article",
        << Section(<<"A">>, <<"a"," ","k","e","Y">>, Tenths(10)),
           Section(<<"B">>, <<"u","u">>, Tenths(14)),
           Section(<<"C">>, <<"v">>, Tenths(16)) >>,
        399)

\* a document "KEY" matches nowhere
Doc3 ==
    Document("d3", <<"T","w","o">>, <<"t","e","x","t">>, "tutorial",
        << Section(<<"T">>, <<"t">>, Tenths(10)) >>,
        200)

Catalogue == {Doc1, Doc2, Doc3}

\* "KEY" matches the sections X and Y
Doc4 ==
    Document("d4", <<"F","o","u","r">>, <<"k","e","y">>, "article",
        << Section(<<"X">>, <<"k","e","y"," ","x">>, Tenths(10)),
           Section(<<"Y">>, <<"K","e","y"," ","y">>, Tenths(20)),
           Section(<<"Z">>, <<"z">>, Tenths(15)) >>,
        300)

DocumentIds == {"d1", "d2", "d3", "d9"}

DocumentTypes == {"article", "tutorial"}

Queries == { <<>>, <<"K","E","Y">> }

MaxTokens == {-1, 0, 27, 28, 33}

(***************************************************************************)
(* DocumentStore                                                           *)
(***************************************************************************)
HasDocument(docs, document_id) ==
    \E i \in 1..Len(docs) : docs[i].id = document_id

KeyIndex(docs, document_id) ==
    CHOOSE i \in 1..Len(docs) : docs[i].id = document_id

\* DocumentStore.get: self.documents.get(document_id)
Get(docs, document_id) ==
    IF HasDocument(docs, document_id)
    THEN docs[KeyIndex(docs, document_id)]
    ELSE None

\* self.documents[document.id] = document: an existing key keeps its place
SetItem(docs, document) ==
    IF HasDocument(docs, document.id)
    THEN [docs EXCEPT ![KeyIndex(docs, document.id)] = document]
    ELSE Append(docs, document)

\* del of the oldest key in the place of the given one
DelItemFirst(docs, document_id) == Tail(docs)

\* del self.documents[document_id]
DelItem(docs, document_id) ==
    LET k == KeyIndex(docs, document_id)
    IN  SubSeq(docs, 1, k - 1) \o SubSeq(docs, k + 1, Len(docs))

\* DocumentStore._save_to_disk: the file content after the call
SaveToDisk(path, docs, file) ==
    IF path THEN [exists |-> TRUE, data |-> docs] ELSE file

RECURSIVE Filter(_, _)
\* [doc.id for doc in docs if keep[doc.id]], in dict order
Filter(docs, keep) ==
    IF docs = <<>> THEN <<>>
    ELSE LET rest == Filter(Tail(docs), keep)
         IN  IF Head(docs).id \in keep THEN <<Head(docs).id>> \o rest ELSE rest

\* the condition of DocumentStore.search
SearchMatches(doc, query) ==
    LET query_lower == Lower(query)
    IN  \/ Contains(Lower(doc.content), query_lower)
        \/ Contains(Lower(doc.title), query_lower)
        \/ \E i \in 1..Len(doc.sections) :
              Contains(Lower(doc.sections[i].title), query_lower)

\* DocumentStore.search: the matching documents (their ids), in dict order
Search(docs, query) ==
    Filter(docs, {docs[i].id : i \in {j \in 1..Len(docs) :
                                        SearchMatches(docs[j], query)}})

\* DocumentStore.list_by_type
ListByType(docs, doc_type) ==
    Filter(docs, {docs[i].id : i \in {j \in 1..Len(docs) :
                                        docs[j].detected_type = doc_type}})

\* DocumentStore.list_all
ListAll(docs) == <<>> \o [i \in 1..Len(docs) |-> docs[i].id]

(***************************************************************************)
(* ContextExtractor                                                        *)
(***************************************************************************)
\* an empty result without the error marker
ErrorResultUnmarked ==
    [context |-> <<>>, metadata |-> [sections_used |-> <<>>]]

\* the result of extract_context for an id the store does not hold
ErrorResult ==
    [context |-> <<>>, metadata |-> [error |-> "Document not found"]]

\* section.weight *= 2
BoostDouble(weight) == weight * 2

\* section.weight *= 1.5
Boost(weight) == (weight * 3) \div 2

\* query_lower in section.content.lower()
QueryMatches(section, query) ==
    Contains(Lower(section.content), Lower(query))

\* x placed behind every element of the descending list s whose key is not
\* smaller than its own
InsertDesc(x, s, sections) ==
    LET k == Cardinality({j \in 1..Len(s) :
                 sections[s[j]].weight >= sections[x].weight})
    IN  SubSeq(s, 1, k) \o <<x>> \o SubSeq(s, k + 1, Len(s))

RECURSIVE SortedDesc(_, _)
\* sorted(refs, key=lambda s: s.weight, reverse=True): stable, descending.
\* refs are positions in document.sections and stand for the Section objects
SortedDesc(refs, sections) ==
    IF refs = <<>> THEN <<>>
    ELSE InsertDesc(refs[Len(refs)],
                    SortedDesc(SubSeq(refs, 1, Len(refs) - 1), sections),
                    sections)

\* document.sections.sort(key=..., reverse=True) in the place of sorted():
\* the boost loop on a list that was put in rank order in place
BoostSectionsSortedInPlace(sections, query) ==
    LET refs == SortedDesc([i \in 1..Len(sections) |-> i], sections)
        inplace == <<>> \o [i \in 1..Len(sections) |-> sections[refs[i]]]
    IN  IF query = <<>> THEN inplace
        ELSE <<>> \o [i \in 1..Len(inplace) |->
                         IF QueryMatches(inplace[i], query)
                         THEN [inplace[i] EXCEPT !.weight = Boost(@)]
                         ELSE inplace[i]]

\* the Section objects after the boost loop; an empty query boosts nothing
BoostSections(sections, query) ==
    IF query = <<>> THEN sections
    ELSE <<>> \o [i \in 1..Len(sections) |->
                     IF QueryMatches(sections[i], query)
                     THEN [sections[i] EXCEPT !.weight = Boost(@)]
                     ELSE sections[i]]

\* sorted_sections after the first sort and, with a query, the re-sort
RankSections(sections, query) ==
    LET first == SortedDesc([i \in 1..Len(sections) |-> i], sections)
    IN  IF query = <<>> THEN first
        ELSE SortedDesc(first, BoostSections(sections, query))

\* f"\n## {section.title}\n{section.content}\n"
SectionText(section) ==
    <<"\n", "#", "#", " ">> \o section.title \o <<"\n">>
        \o section.content \o <<"\n">>

Ellipsis == <<".", ".", ".">>

\* remaining >= 100
RoomForPartialInclusive(remaining) == remaining >= 100

\* remaining > 100
RoomForPartial(remaining) == remaining > 100

\* the packing loop with `continue` in the place of `break`
PackStepContinue(st, section, char_limit) ==
    LET section_text == SectionText(section)
        remaining == char_limit - st.total_chars
    IN  IF st.stopped THEN st
        ELSE IF st.total_chars + Len(section_text) > char_limit
        THEN IF RoomForPartial(remaining)
             THEN [st EXCEPT
                     !.context_parts =
                         Append(@, Prefix(section_text, remaining) \o Ellipsis),
                     !.sections_used = Append(@, section.title),
                     !.stopped = TRUE]
             ELSE st
        ELSE [st EXCEPT
                !.context_parts = Append(@, section_text),
                !.sections_used = Append(@, section.title),
                !.total_chars = @ + Len(section_text)]

\* one iteration of the packing loop; stopped is the break
PackStep(st, section, char_limit) ==
    LET section_text == SectionText(section)
        remaining == char_limit - st.total_chars
    IN  IF st.stopped THEN st
        ELSE IF st.total_chars + Len(section_text) > char_limit
        THEN IF RoomForPartial(remaining)
             THEN [st EXCEPT
                     !.context_parts =
                         Append(@, Prefix(section_text, remaining) \o Ellipsis),
                     !.sections_used = Append(@, section.title),
                     !.stopped = TRUE]
             ELSE [st EXCEPT !.stopped = TRUE]
        ELSE [st EXCEPT
                !.context_parts = Append(@, section_text),
                !.sections_used = Append(@, section.title),
                !.total_chars = @ + Len(section_text)]

RECURSIVE PackLoop(_, _, _, _)
\* for section in sorted_sections: ...
PackLoop(st, refs, sections, char_limit) ==
    IF refs = <<>> THEN st
    ELSE PackLoop(PackStep(st, sections[Head(refs)], char_limit),
                  Tail(refs), sections, char_limit)

RECURSIVE Join(_)
\* "".join(context_parts)
Join(parts) ==
    IF parts = <<>> THEN <<>> ELSE Head(parts) \o Join(Tail(parts))

\* d[key] = value on a dict kept as a sequence of items in insertion order
DictSet(d, key, value) ==
    IF \E i \in 1..Len(d) : d[i].key = key
    THEN <<>> \o [i \in 1..Len(d) |->
                     IF d[i].key = key THEN [key |-> key, value |-> value]
                     ELSE d[i]]
    ELSE Append(d, [key |-> key, value |-> value])

RECURSIVE WeightsApplied(_, _)
\* {s.title: s.weight for s in sorted_sections}
WeightsApplied(refs, sections) ==
    IF refs = <<>> THEN <<>>
    ELSE LET last == sections[refs[Len(refs)]]
         IN  DictSet(WeightsApplied(SubSeq(refs, 1, Len(refs) - 1), sections),
                     last.title, last.weight)

\* extract_context on a document the store holds: the returned pair, the
\* final sorted_sections and the Section objects as the call leaves them
ExtractFrom(document, query, max_tokens) ==
    LET sections == BoostSections(document.sections, query)
        refs == RankSections(document.sections, query)
        char_limit == max_tokens * 4
        st == PackLoop([context_parts |-> <<>>, sections_used |-> <<>>,
                        total_chars |-> 0, stopped |-> FALSE],
                       refs, sections, char_limit)
    IN  [context |-> Join(st.context_parts),
         metadata |->
            [document_id |-> document.id,
             document_type |-> document.detected_type,
             sections_used |-> st.sections_used,
             weights_applied |-> WeightsApplied(refs, sections),
             total_sections |-> Len(document.sections),
             sections_included |-> Len(st.sections_used)],
         sorted_sections |-> refs,
         sections |-> sections]

(***************************************************************************)
(* The operations, one action per call                                     *)
(***************************************************************************)
Init ==
    /\ documents = <<>>
    /\ storage_path \in BOOLEAN
    /\ disk = NoFile
    /\ ret = [op |-> "init"]
    /\ sorted_sections = <<>>
    /\ calls = 0
    /\ pc = "idle"
    /\ frame = NoFrame

\* DocumentStore.add(document)
Add(document) ==
    /\ HasDocument(documents, document.id) \/ Len(documents) < MaxDocs
    /\ documents' = SetItem(documents, document)
    /\ disk' = SaveToDisk(storage_path, documents', disk)
    /\ ret' = [op |-> "add", document_id |-> document.id,
               result |-> document.id]
    /\ sorted_sections' = <<>>
    /\ UNCHANGED <<storage_path, calls, pc, frame>>

\* DocumentStore.get(document_id)
GetDocument(document_id) ==
    /\ ret' = [op |-> "get", document_id |-> document_id,
               result |-> Get(documents, document_id)]
    /\ sorted_sections' = <<>>
    /\ UNCHANGED <<documents, storage_path, disk, calls, pc, frame>>

\* DocumentStore.list_all()
ListAllDocuments ==
    /\ ret' = [op |-> "list_all", result |-> ListAll(documents)]
    /\ sorted_sections' = <<>>
    /\ UNCHANGED <<documents, storage_path, disk, calls, pc, frame>>

\* DocumentStore.list_by_type(doc_type)
ListDocumentsByType(doc_type) ==
    /\ ret' = [op |-> "list_by_type", doc_type |-> doc_type,
               result |-> ListByType(documents, doc_type)]
    /\ sorted_sections' = <<>>
    /\ UNCHANGED <<documents, storage_path, disk, calls, pc, frame>>

\* DocumentStore.delete(document_id)
Delete(document_id) ==
    /\ IF HasDocument(documents, document_id)
       THEN /\ documents' = DelItem(documents, document_id)
            /\ disk' = SaveToDisk(storage_path, documents', disk)
            /\ ret' = [op |-> "delete", document_id |-> document_id,
                       result |-> TRUE]
       ELSE /\ ret' = [op |-> "delete", document_id |-> document_id,
                       result |-> FALSE]
            /\ UNCHANGED <<documents, disk>>
    /\ sorted_sections' = <<>>
    /\ UNCHANGED <<storage_path, calls, pc, frame>>

\* DocumentStore.search(query)
SearchDocuments(query) ==
    /\ ret' = [op |-> "search", query |-> query,
               result |-> Search(documents, query)]
    /\ sorted_sections' = <<>>
    /\ UNCHANGED <<documents, storage_path, disk, calls, pc, frame>>

\* ContextExtractor.extract_context(document_id, query, max_tokens)
ExtractContext(document_id, query, max_tokens) ==
    /\ calls < MaxCalls
    /\ calls' = calls + 1
    /\ IF ~HasDocument(documents, document_id)
       THEN /\ ret' = [op |-> "extract_context",
                       document_id |-> document_id, query |-> query,
                       max_tokens |-> max_tokens,
                       context |-> ErrorResult.context,
                       metadata |-> ErrorResult.metadata]
            /\ sorted_sections' = <<>>
            /\ UNCHANGED documents
       ELSE \E r \in {ExtractFrom(Get(documents, document_id),
                                    query, max_tokens)} :
                /\ ret' = [op |-> "extract_context",
                           document_id |-> document_id, query |-> query,
                           max_tokens |-> max_tokens,
                           context |-> r.context,
                           metadata |-> r.metadata]
                /\ sorted_sections' = r.sorted_sections
                /\ documents' =
                      [documents EXCEPT
                         ![KeyIndex(documents, document_id)].sections =
                             r.sections]
    /\ UNCHANGED <<storage_path, disk, pc, frame>>

Next ==
    \/ \E document \in Catalogue : Add(document)
    \/ \E document_id \in DocumentIds : GetDocument(document_id)
    \/ ListAllDocuments
    \/ \E doc_type \in DocumentTypes : ListDocumentsByType(doc_type)
    \/ \E document_id \in DocumentIds : Delete(document_id)
    \/ \E query \in Queries : SearchDocuments(query)
    \/ \E document_id \in DocumentIds, query \in Queries,
          max_tokens \in MaxTokens :
          ExtractContext(document_id, query, max_tokens)

Spec == Init /\ [][Next]_vars

(***************************************************************************)
(* extract_context step by step, next to a reader.  The code takes no      *)
(* lock, so a thread that calls get or list_all can run between any two    *)
(* iterations of the boost loop of a thread that is in extract_context.    *)
(* The store is filled while no call is under way.                         *)
(***************************************************************************)
ConcCatalogue == {Doc4, Doc3}

ConcDocumentIds == {"d4", "d3", "d9"}

ConcMaxTokens == {0, 27}

\* store.add(document) while no extract_context call is under way
AddWhileIdle(document) ==
    /\ pc = "idle"
    /\ Add(document)

\* extract_context up to the boost loop: the lookup and the first sort
ExtractBegin(document_id, query, max_tokens) ==
    /\ pc = "idle"
    /\ calls < MaxCalls
    /\ calls' = calls + 1
    /\ IF ~HasDocument(documents, document_id)
       THEN /\ ret' = [op |-> "extract_context",
                       document_id |-> document_id, query |-> query,
                       max_tokens |-> max_tokens,
                       context |-> ErrorResult.context,
                       metadata |-> ErrorResult.metadata]
            /\ sorted_sections' = <<>>
            /\ UNCHANGED <<pc, frame>>
       ELSE LET sections == Get(documents, document_id).sections
            IN  /\ sorted_sections' =
                      SortedDesc([i \in 1..Len(sections) |-> i], sections)
                /\ pc' = "boost"
                /\ frame' = [document_id |-> document_id, query |-> query,
                             max_tokens |-> max_tokens,
                             i |-> IF query = <<>>
                                   THEN Len(sections) + 1 ELSE 1]
                /\ UNCHANGED ret
    /\ UNCHANGED <<documents, storage_path, disk>>

\* one iteration of `for section in sorted_sections` of the boost loop
BoostOne ==
    /\ pc = "boost"
    /\ frame.i <= Len(sorted_sections)
    /\ LET k == KeyIndex(documents, frame.document_id)
           j == sorted_sections[frame.i]
       IN  documents' =
              IF QueryMatches(documents[k].sections[j], frame.query)
              THEN [documents EXCEPT ![k].sections[j].weight = Boost(@)]
              ELSE documents
    /\ frame' = [frame EXCEPT !.i = @ + 1]
    /\ UNCHANGED <<storage_path, disk, ret, sorted_sections, calls, pc>>

\* the rest of extract_context: the re-sort, the packing and the return
ExtractFinish ==
    /\ pc = "boost"
    /\ frame.i > Len(sorted_sections)
    /\ LET document == Get(documents, frame.document_id)
           refs == IF frame.query = <<>> THEN sorted_sections
                   ELSE SortedDesc(sorted_sections, document.sections)
       IN  \E st \in {PackLoop([context_parts |-> <<>>,
                                sections_used |-> <<>>,
                                total_chars |-> 0, stopped |-> FALSE],
                               refs, document.sections,
                               frame.max_tokens * 4)} :
              /\ ret' = [op |-> "extract_context",
                         document_id |-> frame.document_id,
                         query |-> frame.query,
                         max_tokens |-> frame.max_tokens,
                         context |-> Join(st.context_parts),
                         metadata |->
                            [document_id |-> document.id,
                             document_type |-> document.detected_type,
                             sections_used |-> st.sections_used,
                             weights_applied |->
                                 WeightsApplied(refs, document.sections),
                             total_sections |-> Len(document.sections),
                             sections_included |-> Len(st.sections_used)]]
              /\ sorted_sections' = refs
    /\ pc' = "idle"
    /\ frame' = NoFrame
    /\ UNCHANGED <<documents, storage_path, disk, calls>>

\* store.get(document_id) in the reader thread: the document as it is now
ReaderGet(document_id) ==
    /\ ret' = [op |-> "get", document_id |-> document_id,
               result |-> <<Get(documents, document_id)>>]
    /\ UNCHANGED <<documents, storage_path, disk, sorted_sections, calls,
                   pc, frame>>

\* store.list_all() in the reader thread: the documents as they are now
ReaderListAll ==
    /\ ret' = [op |-> "list_all", result |-> documents]
    /\ UNCHANGED <<documents, storage_path, disk, sorted_sections, calls,
                   pc, frame>>

ConcNext ==
    \/ \E document \in ConcCatalogue : AddWhileIdle(document)
    \/ \E document_id \in ConcDocumentIds, query \in Queries,
          max_tokens \in ConcMaxTokens :
          ExtractBegin(document_id, query, max_tokens)
    \/ BoostOne
    \/ ExtractFinish
    \/ \E document_id \in ConcDocumentIds : ReaderGet(document_id)
    \/ ReaderListAll

SpecConc == Init /\ [][ConcNext]_vars

(***************************************************************************)
(* Properties                                                              *)
(***************************************************************************)
\* a step that is one extract_context call
ExtractStep == calls' = calls + 1 /\ ret'.op = "extract_context"

\* the state right after an extract_context call on a stored document
Extracted == ret.op = "extract_context" /\ "error" \notin DOMAIN ret.metadata

SectionWeights(docs) ==
    [i \in 1..Len(docs) |->
        [j \in 1..Len(docs[i].sections) |-> docs[i].sections[j].weight]]

\* C1: extract_context leaves every section weight of every stored document
\* as it was immediately before the call.
C1_NoBoostLeftInStore ==
    [][ExtractStep => SectionWeights(documents') = SectionWeights(documents)]_vars

\* C2: an extract_context call that directly follows a call with the same
\* document id, query and max_tokens returns the same context, sections_used
\* and weights_applied.
C2_RepeatedCallsAgree ==
    [][(/\ ret.op = "extract_context"
        /\ ExtractStep
        /\ ret'.document_id = ret.document_id
        /\ ret'.query = ret.query
        /\ ret'.max_tokens = ret.max_tokens
        /\ HasDocument(documents, ret.document_id))
       => /\ ret'.context = ret.context
          /\ ret'.metadata.sections_used = ret.metadata.sections_used
          /\ ret'.metadata.weights_applied = ret.metadata.weights_applied]_vars

\* the returned context ends in the ellipsis of a truncated block (a whole
\* block ends in a newline)
EndsTruncated(context) ==
    /\ Len(context) >= Len(Ellipsis)
    /\ SubSeq(context, Len(context) - Len(Ellipsis) + 1, Len(context)) = Ellipsis

\* C3: the returned context is at most max_tokens * 4 + 3 characters long and
\* is longer than max_tokens * 4 only when its last block is a truncated one.
C3_BudgetRespected ==
    Extracted =>
        /\ Len(ret.context) <= ret.max_tokens * 4 + Len(Ellipsis)
        /\ Len(ret.context) > ret.max_tokens * 4 => EndsTruncated(ret.context)

\* twice the effective score of a section for a query: the weight, times 1.5
\* when the query is not empty and the section content contains it
TwiceEffective(section, query) ==
    IF query # <<>> /\ QueryMatches(section, query)
    THEN 3 * section.weight
    ELSE 2 * section.weight

\* C4: the packed sections are in descending order of effective score, and
\* packed sections of equal effective score are in document order.
C4_RankOrderStableTies ==
    [][(ExtractStep /\ HasDocument(documents, ret'.document_id)) =>
        LET before == Get(documents, ret'.document_id).sections
            query == ret'.query
            packed == Len(ret'.metadata.sections_used)
        IN  \A p, q \in 1..packed :
               p < q =>
                 LET a == sorted_sections'[p]
                     b == sorted_sections'[q]
                 IN  \/ TwiceEffective(before[a], query)
                            > TwiceEffective(before[b], query)
                     \/ /\ TwiceEffective(before[a], query)
                            = TwiceEffective(before[b], query)
                        /\ a < b]_vars

\* the place of section i in the ranked list
RankOf(refs, i) == CHOOSE p \in 1..Len(refs) : refs[p] = i

\* C5: when the query matches the content of exactly one section M, M is
\* ranked ahead of every section U with weight(U) < 1.5 * weight(M) and
\* behind every section U with weight(U) > 1.5 * weight(M).
C5_QueryBoostDirection ==
    [][(ExtractStep /\ HasDocument(documents, ret'.document_id)
                    /\ ret'.query # <<>>) =>
        LET before == Get(documents, ret'.document_id).sections
            matched == {i \in 1..Len(before) :
                           QueryMatches(before[i], ret'.query)}
        IN  \A m \in matched :
              matched = {m} =>
                \A u \in (1..Len(before)) \ {m} :
                   /\ 2 * before[u].weight < 3 * before[m].weight =>
                        RankOf(sorted_sections', m) < RankOf(sorted_sections', u)
                   /\ 2 * before[u].weight > 3 * before[m].weight =>
                        RankOf(sorted_sections', u) < RankOf(sorted_sections', m)]_vars

\* C5 witness: the first call on Doc2 with the query that matches section A
\* only: C (1.6) stays ahead of the boosted A (1.5), which overtakes B (1.4).
C5_Witness ==
    /\ Extracted
    /\ ret.document_id = "d2"
    /\ ret.query = <<"K","E","Y">>
    /\ Get(documents, "d2").sections[1].weight = (3 * Doc2.sections[1].weight) \div 2
    /\ sorted_sections = <<3, 1, 2>>

\* the length of the block rendered for a section
BlockLen(section) == Len(section.title) + Len(section.content) + 6

RECURSIVE BlocksLen(_, _, _)
\* the length of the blocks of the first k ranked sections together
BlocksLen(refs, sections, k) ==
    IF k = 0 THEN 0
    ELSE BlocksLen(refs, sections, k - 1) + BlockLen(sections[refs[k]])

\* C6: sections_used is a prefix of the ranked order, and no section ranked
\* after the first one whose block does not fully fit is included.
C6_GreedyByRank ==
    Extracted =>
        LET sections == Get(documents, ret.document_id).sections
            used == ret.metadata.sections_used
        IN  /\ Len(used) <= Len(sorted_sections)
            /\ \A i \in 1..Len(used) :
                  used[i] = sections[sorted_sections[i]].title
            /\ \A i \in 1..Len(sorted_sections) :
                  BlocksLen(sorted_sections, sections, i) > ret.max_tokens * 4
                      => Len(used) <= i

\* C6 witness: packing stopped without a partial block although a section
\* ranked later would fit in what is left of the budget.
C6_Witness ==
    /\ Extracted
    /\ ret.max_tokens > 0
    /\ ~EndsTruncated(ret.context)
    /\ LET sections == Get(documents, ret.document_id).sections
           used == Len(ret.metadata.sections_used)
       IN  /\ used > 0
           /\ \E j \in (used + 2)..Len(sorted_sections) :
                 BlockLen(sections[sorted_sections[j]])
                     <= ret.max_tokens * 4 - Len(ret.context)

\* the number of leading ranked sections whose blocks fit whole, one after
\* the other, in char_limit characters
WholeBlocks(refs, sections, char_limit) ==
    Cardinality({k \in 1..Len(refs) :
                    BlocksLen(refs, sections, k) <= char_limit})

RECURSIVE BlocksText(_, _, _)
\* the blocks of the first k ranked sections, one after the other
BlocksText(refs, sections, k) ==
    IF k = 0 THEN <<>>
    ELSE BlocksText(refs, sections, k - 1)
            \o <<"\n", "#", "#", " ">> \o sections[refs[k]].title \o <<"\n">>
            \o sections[refs[k]].content \o <<"\n">>

\* C7: the blocks that fit are appended whole, a block as long as the
\* remaining budget included; of the first block that does not fit, the first
\* `remaining` characters and "..." are appended when remaining > 100 and
\* nothing when remaining <= 100; nothing is appended after it.
C7_TruncationThreshold ==
    Extracted =>
        LET sections == Get(documents, ret.document_id).sections
            refs == sorted_sections
            char_limit == ret.max_tokens * 4
            k == WholeBlocks(refs, sections, char_limit)
            whole == BlocksText(refs, sections, k)
            remaining == char_limit - Len(whole)
            titles == [i \in 1..Len(refs) |-> sections[refs[i]].title]
        IN  IF k = Len(refs)
            THEN /\ ret.context = whole
                 /\ ret.metadata.sections_used = titles
            ELSE IF remaining > 100
            THEN /\ ret.context =
                        SubSeq(BlocksText(refs, sections, k + 1),
                               1, char_limit) \o <<".", ".", ".">>
                 /\ ret.metadata.sections_used = SubSeq(titles, 1, k + 1)
            ELSE /\ ret.context = whole
                 /\ ret.metadata.sections_used = SubSeq(titles, 1, k)

\* C7 witness: a block cut to the remaining budget of more than 100
\* characters, behind a block that was appended whole.
C7_Witness ==
    /\ Extracted
    /\ EndsTruncated(ret.context)
    /\ Len(ret.context) = ret.max_tokens * 4 + 3
    /\ Len(ret.metadata.sections_used) = 2

\* C8: extract_context on an id the store does not hold returns the empty
\* string and metadata with the "error" key, and changes no stored document.
C8_UnknownId ==
    [][(ExtractStep /\ ~HasDocument(documents, ret'.document_id)) =>
        /\ ret'.context = <<>>
        /\ "error" \in DOMAIN ret'.metadata
        /\ documents' = documents]_vars

\* C8 witness: a call with the id of a catalogue document that a non-empty,
\* persisted store does not hold.
C8_Witness ==
    /\ ret.op = "extract_context"
    /\ ~HasDocument(documents, ret.document_id)
    /\ ret.document_id \in {d.id : d \in Catalogue}
    /\ Len(documents) > 0
    /\ disk.exists

\* C9: extract_context with max_tokens <= 0 on a stored document yields an
\* error outcome and neither sorts nor changes any section weight.
C9_NonPositiveBudgetRejected ==
    [][(ExtractStep /\ HasDocument(documents, ret'.document_id)
                    /\ ret'.max_tokens <= 0) =>
        /\ "error" \in DOMAIN ret'.metadata
        /\ sorted_sections' = <<>>
        /\ SectionWeights(documents') = SectionWeights(documents)]_vars

\* days between ingestion and the search, on day 400
ElapsedDays(document) == 400 - document.ingestion_timestamp

\* two documents the search conditions cannot tell apart: any match score
\* computed from content, title and section titles is the same for both
EquallyMatching(a, b) ==
    /\ a.content = b.content
    /\ a.title = b.title
    /\ [i \in 1..Len(a.sections) |-> a.sections[i].title]
          = [i \in 1..Len(b.sections) |-> b.sections[i].title]

\* C10: search returns the matching documents by match_score * decay_factor
\* descending, decay_factor = 1 / (1 + elapsed_days * 1.0): of two equally
\* matching documents the one with fewer elapsed days comes first.
C10_SearchRankedByDecay ==
    ret.op = "search" =>
        \A p, q \in 1..Len(ret.result) :
            LET a == Get(documents, ret.result[p])
                b == Get(documents, ret.result[q])
            IN  (p < q /\ EquallyMatching(a, b)) =>
                    1 + ElapsedDays(a) <= 1 + ElapsedDays(b)

\* the document as it was handed to add
Baseline(document_id) == CHOOSE d \in Catalogue : d.id = document_id

\* C12: every section weight in the mapping last written to the storage file
\* is the weight the section had when its document was added.
C12_DiskHoldsBaseline ==
    disk.exists =>
        \A i \in 1..Len(disk.data) :
            \A j \in 1..Len(disk.data[i].sections) :
                disk.data[i].sections[j].weight
                    = Baseline(disk.data[i].id).sections[j].weight

\* the keys of self.documents
StoredIds(docs) == {docs[i].id : i \in 1..Len(docs)}

\* C13: delete(id) of a stored id returns True and removes that document and
\* no other; delete(id) of an absent id returns False and changes nothing;
\* no other operation removes an id from the store.
C13_OnlyDeleteRemoves ==
    [][IF ret'.op = "delete"
       THEN IF HasDocument(documents, ret'.document_id)
            THEN /\ ret'.result = TRUE
                 /\ StoredIds(documents')
                       = StoredIds(documents) \ {ret'.document_id}
                 /\ Len(documents') = Len(documents) - 1
                 /\ \A i \in 1..Len(documents) :
                       documents[i].id # ret'.document_id =>
                          \E k \in 1..Len(documents') :
                              documents'[k] = documents[i]
            ELSE /\ ret'.result = FALSE
                 /\ documents' = documents
       ELSE StoredIds(documents) \subseteq StoredIds(documents')]_vars

\* C13 witness: a delete that returned True and left another document in
\* the store.
C13_Witness ==
    /\ ret.op = "delete"
    /\ ret.result = TRUE
    /\ Len(documents) > 0
    /\ ~HasDocument(documents, ret.document_id)

\* the sections of document b are those of document a, one by one, in title
\* and content
SameSectionTexts(a, b) ==
    /\ Len(a.sections) = Len(b.sections)
    /\ \A j \in 1..Len(a.sections) :
          /\ a.sections[j].title = b.sections[j].title
          /\ a.sections[j].content = b.sections[j].content

\* C14: extract_context leaves the sections of every stored document in the
\* same order with the same titles and contents, and the ids of the store
\* as they were.
C14_SectionsKeepDocumentOrder ==
    [][ExtractStep =>
        /\ Len(documents') = Len(documents)
        /\ \A i \in 1..Len(documents) :
              /\ documents'[i].id = documents[i].id
              /\ SameSectionTexts(documents[i], documents'[i])]_vars

\* C14 witness: a call with a matching query ranked the sections in an order
\* that is not the document order, which the stored document still has.
C14_Witness ==
    /\ Extracted
    /\ ret.query # <<>>
    /\ sorted_sections # [i \in 1..Len(sorted_sections) |-> i]
    /\ SameSectionTexts(Baseline(ret.document_id),
                        Get(documents, ret.document_id))

\* a step of the reader while an extract_context call is in its boost loop
ReadDuringBoost ==
    /\ pc = "boost"
    /\ pc' = "boost"
    /\ ret' # ret
    /\ ret'.op \in {"get", "list_all"}

\* the sections of document_id as the last read returned them, if it did
SeenSections(read, document_id) ==
    LET hits == {k \in 1..Len(read.result) :
                    read.result[k].id = document_id}
    IN  IF hits = {} THEN <<>>
        ELSE read.result[CHOOSE k \in hits : TRUE].sections

\* C11: a get or list_all that runs during an extract_context call on the
\* same document sees the weights of all matching sections as they were
\* before the call or all of them boosted, never some boosted and some not.
C11_ReadersSeeWholeBoost ==
    [][ReadDuringBoost =>
        LET seen == SeenSections(ret', frame.document_id)
            matching == {j \in 1..Len(seen) :
                            /\ frame.query # <<>>
                            /\ QueryMatches(seen[j], frame.query)}
            boosted == {sorted_sections[p] : p \in 1..(frame.i - 1)}
            before == [j \in 1..Len(seen) |->
                         IF j \in matching \cap boosted
                         THEN (seen[j].weight * 2) \div 3
                         ELSE seen[j].weight]
            after == [j \in 1..Len(seen) |->
                         IF j \in matching
                         THEN (before[j] * 3) \div 2
                         ELSE before[j]]
            weights == [j \in 1..Len(seen) |-> seen[j].weight]
        IN  weights = before \/ weights = after]_vars

====
